---- MODULE Spec2Model ----
(***************************************************************************)
(* ORCID Analytics dashboard: the App component (analysis handlers and the  *)
(* memoised statistics) and the orcidService functions fetchOrcidData,      *)
(* generateMockData and parseCsvFile.                                       *)
(*                                                                          *)
(* JavaScript strings that the code splits, trims, matches or concatenates  *)
(* are sequences of one-character strings.  An optional value (undefined or *)
(* null in the code) is a sequence of length at most one: <<>> is absent,   *)
(* <<v>> is present.  Messages shown to the user are kept as TLA+ strings,  *)
(* the code only stores and displays them.                                  *)
(***************************************************************************)
EXTENDS Integers, Sequences, FiniteSets, TLC

VARIABLES inputType, singleId, csvFile, loading, error, data, stats, runs,
          apiKey, isOpen, messages, inputValue, isProcessing, chatSession,
          exchanges, now

vars == <<inputType, singleId, csvFile, loading, error, data, stats, runs,
          apiKey, isOpen, messages, inputValue, isProcessing, chatSession,
          exchanges, now>>

\* The state of the ChatBot component that only its own handlers change.
chatVars == <<apiKey, isOpen, messages, inputValue, isProcessing, exchanges, now>>

\* The state of the App component that only its own handlers change.
appVars == <<inputType, singleId, csvFile, loading, error, runs>>

None == <<>>
Some(v) == <<v>>

\* An array given by its elements, as an explicit sequence.
Array(f) == <<>> \o f

(***************************************************************************)
(* String literals of the source.                                           *)
(***************************************************************************)
S_orcid == <<"o","r","c","i","d">>
S_Untitled == <<"U","n","t","i","t","l","e","d">>
S_UNKNOWN == <<"U","N","K","N","O","W","N">>
S_Other == <<"O","t","h","e","r">>
S_doi == <<"d","o","i">>
S_Researcher == <<"R","e","s","e","a","r","c","h","e","r"," ">>
S_SamplePub == <<"S","a","m","p","l","e"," ","R","e","s","e","a","r","c","h"," ","P","u","b","l","i","c","a","t","i","o","n"," ">>
S_for == <<" ","f","o","r"," ">>
S_mock == <<"m","o","c","k","-">>
S_mockDoi == <<"1","0",".","1","0","0","0","/","m","o","c","k",".">>
S_JOURNAL_ARTICLE == <<"J","O","U","R","N","A","L","_","A","R","T","I","C","L","E">>
S_CONFERENCE_PAPER == <<"C","O","N","F","E","R","E","N","C","E","_","P","A","P","E","R">>
S_BOOK_CHAPTER == <<"B","O","O","K","_","C","H","A","P","T","E","R">>
S_BOOK == <<"B","O","O","K">>

MsgNoColumn == "CSV must contain an 'orcid' column."
MsgReadFailed == "Failed to read file"
MsgNoIds == "No valid ORCID IDs found in file."
MsgAnalyzeFailed == "Failed to analyze ID"
MsgProcessFailed == "Failed to process file"

(***************************************************************************)
(* JavaScript string primitives.                                            *)
(***************************************************************************)
DigitChars == <<"0","1","2","3","4","5","6","7","8","9">>
Digits == {DigitChars[k] : k \in 1..10}
UpperChars == <<"A","B","C","D","E","F","G","H","I","J","K","L","M","N","O","P","Q","R","S","T","U","V","W","X","Y","Z">>
LowerChars == <<"a","b","c","d","e","f","g","h","i","j","k","l","m","n","o","p","q","r","s","t","u","v","w","x","y","z">>

\* The white space and line terminators String.prototype.trim removes.
WhiteSpace == {" ", "\t", "\n", "\r"}

IsDigit(c) == c \in Digits

DigitValue(c) == (CHOOSE k \in 1..10 : DigitChars[k] = c) - 1

LowerChar(c) ==
  IF \E k \in 1..26 : UpperChars[k] = c
  THEN LowerChars[CHOOSE k \in 1..26 : UpperChars[k] = c]
  ELSE c

\* String.prototype.toLowerCase
ToLowerCase(s) == Array([k \in 1..Len(s) |-> LowerChar(s[k])])

RECURSIVE TrimStart(_)
TrimStart(s) ==
  IF s # <<>> /\ Head(s) \in WhiteSpace THEN TrimStart(Tail(s)) ELSE s

RECURSIVE TrimEnd(_)
TrimEnd(s) ==
  IF s # <<>> /\ s[Len(s)] \in WhiteSpace
  THEN TrimEnd(SubSeq(s, 1, Len(s) - 1))
  ELSE s

\* String.prototype.trim
Trim(s) == TrimEnd(TrimStart(s))

\* String.prototype.split with a one-character separator: the segments
\* between consecutive separators, one (empty) segment for the empty string.
Split(s, sep) ==
  LET seps == {k \in 1..Len(s) : s[k] = sep}
      n == Cardinality(seps)
      \* the position of the j-th separator; 0 and Len(s) + 1 are the ends
      pos(j) == IF j = 0 THEN 0
                ELSE IF j = n + 1 THEN Len(s) + 1
                ELSE CHOOSE p \in seps : Cardinality({q \in seps : q < p}) = j - 1
  IN Array([j \in 1..(n + 1) |-> SubSeq(s, pos(j - 1) + 1, pos(j) - 1)])

\* text.split(/\r?\n/): a separator is "\n" or "\r\n", so a "\r" right
\* before a line feed belongs to the separator.
SplitLines(text) ==
  LET parts == Split(text, "\n")
  IN Array([k \in 1..Len(parts) |->
              IF k < Len(parts) /\ parts[k] # <<>> /\ parts[k][Len(parts[k])] = "\r"
              THEN SubSeq(parts[k], 1, Len(parts[k]) - 1)
              ELSE parts[k]])

\* Array.prototype.indexOf, 0-based, -1 when absent.
IndexOf(arr, v) ==
  IF \E k \in 1..Len(arr) : arr[k] = v
  THEN (CHOOSE k \in 1..Len(arr) : arr[k] = v /\ \A j \in 1..(k - 1) : arr[j] # v) - 1
  ELSE -1

\* Number to decimal string (String(n), template literals, object keys).
RECURSIVE NatToString(_)
NatToString(n) ==
  IF n < 10 THEN <<DigitChars[n + 1]>>
  ELSE Append(NatToString(n \div 10), DigitChars[(n % 10) + 1])

NumberToString(n) == IF n < 0 THEN <<"-">> \o NatToString(-n) ELSE NatToString(n)

(***************************************************************************)
(* parseInt(s, 10): leading white space skipped, an optional sign, then the *)
(* longest run of digits; NaN when there is no digit.  A number is          *)
(* [k |-> "num", v |-> n]; NaN and null are the other two kinds.            *)
(***************************************************************************)
Num(n) == [k |-> "num", v |-> n]
NaN == [k |-> "NaN", v |-> 0]
Null == [k |-> "null", v |-> 0]

RECURSIVE DigitRun(_)
DigitRun(s) ==
  IF s # <<>> /\ IsDigit(Head(s)) THEN <<Head(s)>> \o DigitRun(Tail(s)) ELSE <<>>

RECURSIVE DigitsValue(_, _)
DigitsValue(ds, acc) ==
  IF ds = <<>> THEN acc ELSE DigitsValue(Tail(ds), acc * 10 + DigitValue(Head(ds)))

ParseInt(s) ==
  LET t == TrimStart(s)
      neg == t # <<>> /\ Head(t) = "-"
      u == IF t # <<>> /\ Head(t) \in {"-", "+"} THEN Tail(t) ELSE t
      ds == DigitRun(u)
  IN IF ds = <<>> THEN NaN
     ELSE Num(IF neg THEN 0 - DigitsValue(ds, 0) ELSE DigitsValue(ds, 0))

\* JavaScript truthiness of a number | null.
TruthyNumber(y) == y.k = "num" /\ y.v # 0

(***************************************************************************)
(* parseCsvFile: the FileReader's onload callback.                          *)
(***************************************************************************)
\* (\d{4}-) at position p of s.
MatchGroup(s, p) ==
  /\ p + 4 <= Len(s)
  /\ \A k \in 0..3 : IsDigit(s[p + k])
  /\ s[p + 4] = "-"

\* A last character class that also takes the lower-case x.
LastCharClassLower == Digits \cup {"X", "x"}

\* The last character class of the pattern, [\dX].
LastCharClass == Digits \cup {"X"}

\* id.match(/^(\d{4}-){3}\d{3}[\dX]$/)
OrcidPatternMatch(s) ==
  /\ MatchGroup(s, 1)
  /\ MatchGroup(s, 6)
  /\ MatchGroup(s, 11)
  /\ Len(s) = 19
  /\ \A k \in 16..18 : IsDigit(s[k])
  /\ s[19] \in LastCharClass

\* header = lines[0].toLowerCase().split(',').map(h => h.trim())
HeaderCells(line) ==
  LET raw == Split(ToLowerCase(line), ",")
  IN Array([k \in 1..Len(raw) |-> Trim(raw[k])])

\* A column lookup that takes the first cell beginning with "orcid".
OrcidColumnPrefix(header) ==
  LET hits == {k \in 1..Len(header) :
                 Len(header[k]) >= 5 /\ SubSeq(header[k], 1, 5) = S_orcid}
  IN IF hits = {} THEN -1 ELSE (CHOOSE k \in hits : \A j \in hits : k <= j) - 1

\* const orcidIndex = header.indexOf('orcid')
OrcidColumn(header) == IndexOf(header, S_orcid)

\* The loop over lines[1..]: the accepted identifiers from line i (1-based
\* position in the sequence, so the first data row is 2) onwards.
RECURSIVE CollectIds(_, _, _, _)
CollectIds(lines, i, orcidIndex, ids) ==
  IF i > Len(lines) THEN ids
  ELSE LET columns == Split(lines[i], ",")
           id == Trim(columns[orcidIndex + 1])
       IN IF Len(columns) > orcidIndex /\ OrcidPatternMatch(id)
          THEN CollectIds(lines, i + 1, orcidIndex, Append(ids, id))
          ELSE CollectIds(lines, i + 1, orcidIndex, ids)

Resolved(v) == [st |-> "resolved", ids |-> v, reason |-> ""]
Rejected(msg) == [st |-> "rejected", ids |-> <<>>, reason |-> msg]
Reading == [st |-> "reading", ids |-> <<>>, reason |-> ""]

\* reader.onload: what the promise of parseCsvFile settles to.
ParseCsvText(text) ==
  LET lines == SplitLines(text)
      header == HeaderCells(lines[1])
      orcidIndex == OrcidColumn(header)
  IN IF orcidIndex = -1 THEN Rejected(MsgNoColumn)
     ELSE Resolved(CollectIds(lines, 2, orcidIndex, <<>>))

(***************************************************************************)
(* JavaScript values, objects and arrays used by the statistics.            *)
(***************************************************************************)
\* A value that is a number in one place and a string in another (putCode).
JsNumber(n) == [t |-> "number", n |-> n, s |-> <<>>]
JsString(str) == [t |-> "string", n |-> 0, s |-> str]

\* A Record<key, number> is the sequence of its own properties in creation
\* order, each [key |-> string, count |-> number].
HasKey(obj, key) == \E k \in 1..Len(obj) : obj[k].key = key

\* obj[key] = (obj[key] || 0) + 1
Increment(obj, key) ==
  IF HasKey(obj, key)
  THEN Array([k \in 1..Len(obj) |->
                IF obj[k].key = key THEN [obj[k] EXCEPT !.count = @ + 1] ELSE obj[k]])
  ELSE Append(obj, [key |-> key, count |-> 1])

\* A canonical array index: the decimal string of an integer in 0..2^32-2.
\* The numbers of the model have at most nine digits, all below that limit.
IsArrayIndex(key) ==
  /\ key # <<>>
  /\ Len(key) <= 9
  /\ \A k \in 1..Len(key) : IsDigit(key[k])
  /\ (Len(key) > 1 => key[1] # "0")

\* Stable insertion of x into a sequence sorted by .sortKey, after every
\* element whose key is not greater.
RECURSIVE InsertByKey(_, _)
InsertByKey(sorted, x) ==
  IF sorted = <<>> THEN <<x>>
  ELSE IF x.sortKey < Head(sorted).sortKey THEN <<x>> \o sorted
  ELSE <<Head(sorted)>> \o InsertByKey(Tail(sorted), x)

\* Array.prototype.sort with the comparator (a, b) => a.sortKey - b.sortKey;
\* the sort is stable.
RECURSIVE SortByKey(_, _)
SortByKey(todo, sorted) ==
  IF todo = <<>> THEN sorted
  ELSE SortByKey(Tail(todo), InsertByKey(sorted, Head(todo)))

\* Object.entries: array-index keys first in ascending numeric order, then
\* the other keys in creation order.
ObjectEntries(obj) ==
  LET idx == SelectSeq(obj, LAMBDA e : IsArrayIndex(e.key))
      rest == SelectSeq(obj, LAMBDA e : ~IsArrayIndex(e.key))
      keyed == Array([k \in 1..Len(idx) |->
                        [sortKey |-> DigitsValue(idx[k].key, 0), e |-> idx[k]]])
      ordered == SortByKey(keyed, <<>>)
  IN Array([k \in 1..Len(ordered) |-> ordered[k].e]) \o rest

RECURSIVE Gcd(_, _)
Gcd(a, b) == IF b = 0 THEN a ELSE Gcd(b, a % b)

\* The quotient a / b of two naturals, b > 0, as a fraction in lowest terms.
Quotient(a, b) == [num |-> a \div Gcd(a, b), den |-> b \div Gcd(a, b)]
Zero == [num |-> 0, den |-> 1]

(***************************************************************************)
(* App.stats: the useMemo over data.                                        *)
(***************************************************************************)
\* if (work.year): the test that decides whether a work is counted by year.
YearCounted(work) == TruthyNumber(work.year)

\* null where a string is expected: a value that is no sequence of
\* characters.
NullString == <<"null">>

\* A label taken as it is, without the default.
TypeLabelRaw(work) == work.type

\* const type = work.type || 'Other': the falsy values of a type are the
\* empty string and null.
TypeLabel(work) ==
  IF work.type = <<>> \/ work.type = NullString THEN S_Other ELSE work.type

\* The body of the inner forEach: one work counted into [years, types].
CountWork(acc, work) ==
  [years |-> IF YearCounted(work)
             THEN Increment(acc.years, NumberToString(work.year.v))
             ELSE acc.years,
   types |-> Increment(acc.types, TypeLabel(work))]

\* The works in the order the nested forEach loops visit them.
RECURSIVE VisitOrder(_)
VisitOrder(profiles) ==
  IF profiles = <<>> THEN <<>>
  ELSE Head(profiles).works \o VisitOrder(Tail(profiles))

\* The nested forEach loops, from the k-th visited work on.  The test on
\* acc is never true: it makes TLC evaluate the counters at every step
\* instead of suspending all the updates until the end.
RECURSIVE CountWorks(_, _, _)
CountWorks(works, k, acc) ==
  IF k > Len(works) \/ Len(acc.years) + Len(acc.types) < 0 THEN acc
  ELSE CountWorks(works, k + 1, CountWork(acc, works[k]))

\* A total that is assigned, not added to: the last profile's count.
TotalPubsAssigned(profiles) ==
  IF profiles = <<>> THEN 0 ELSE Len(profiles[Len(profiles)].works)

\* totalPubs += profile.works.length, over the profiles.
RECURSIVE TotalPubs(_)
TotalPubs(profiles) ==
  IF profiles = <<>> THEN 0
  ELSE Len(Head(profiles).works) + TotalPubs(Tail(profiles))

\* Object.entries(yearCounts).map(...).sort((a, b) => a.year - b.year)
PublicationsByYear(yearCounts) ==
  LET es == ObjectEntries(yearCounts)
      mapped == Array([k \in 1..Len(es) |->
                         [year |-> ParseInt(es[k].key).v, count |-> es[k].count]])
      keyed == Array([k \in 1..Len(mapped) |->
                        [sortKey |-> mapped[k].year, e |-> mapped[k]]])
      sorted == SortByKey(keyed, <<>>)
  IN Array([k \in 1..Len(sorted) |-> sorted[k].e])

\* Object.entries(typeCounts).map(...).sort((a, b) => b.count - a.count)
PublicationsByType(typeCounts) ==
  LET es == ObjectEntries(typeCounts)
      mapped == Array([k \in 1..Len(es) |->
                         [type |-> es[k].key, count |-> es[k].count]])
      keyed == Array([k \in 1..Len(mapped) |->
                        [sortKey |-> 0 - mapped[k].count, e |-> mapped[k]]])
      sorted == SortByKey(keyed, <<>>)
  IN Array([k \in 1..Len(sorted) |-> sorted[k].e])

\* The object the memo returns for a collection it does not skip.
Summary(d) ==
  LET totalResearchers == Len(d)
      totalPubs == TotalPubs(d)
      acc == CountWorks(VisitOrder(d), 1, [years |-> <<>>, types |-> <<>>])
  IN [totalResearchers |-> totalResearchers,
      totalPublications |-> totalPubs,
      avgPublications |-> IF totalResearchers > 0
                          THEN Quotient(totalPubs, totalResearchers)
                          ELSE Zero,
      publicationsByYear |-> PublicationsByYear(acc.years),
      publicationsByType |-> PublicationsByType(acc.types),
      processedProfiles |-> d]

\* A memo without the early return for the empty collection.
ComputeStatsNoGuard(d) == Some(Summary(d))

\* The memoised stats of a profile collection: None is null.
ComputeStats(d) == IF Len(d) = 0 THEN None ELSE Some(Summary(d))

(***************************************************************************)
(* generateMockData.  Math.random is a generator with an unknown seed; the  *)
(* n-th draw is a fraction RandomAt(seed, n) / RandDen in [0, 1).           *)
(***************************************************************************)
RandDen == 20

\* An additive congruential generator.
RandomAt(seed, n) == (seed + 11 * n) % RandDen

\* Math.floor(Math.random() * m) for the n-th draw
FloorRandom(seed, n, m) == (RandomAt(seed, n) * m) \div RandDen

MockYears == <<2018, 2019, 2020, 2021, 2022, 2023, 2024>>
MockTypes == <<S_JOURNAL_ARTICLE, S_CONFERENCE_PAPER, S_BOOK_CHAPTER, S_BOOK>>
MockSpan == 20
MockMin == 5

\* A length drawn from a range two wider.
MockLengthWide(seed) == FloorRandom(seed, 0, MockSpan + 2) + MockMin

\* Math.floor(Math.random() * 20) + 5, the first draw
MockLength(seed) == FloorRandom(seed, 0, MockSpan) + MockMin

\* orcid.substring(0, 4)
Substring04(str) == SubSeq(str, 1, IF Len(str) < 4 THEN Len(str) ELSE 4)

\* The work of index i (0-based): its year is draw 2i+1, its type draw 2i+2.
MockWork(orcid, seed, i) ==
  [title |-> S_SamplePub \o NumberToString(i + 1) \o S_for \o orcid,
   year |-> Num(MockYears[FloorRandom(seed, 2 * i + 1, Len(MockYears)) + 1]),
   type |-> MockTypes[FloorRandom(seed, 2 * i + 2, Len(MockTypes)) + 1],
   putCode |-> JsString(S_mock \o NumberToString(i)),
   doi |-> Some(S_mockDoi \o NumberToString(i))]

GenerateMockData(orcid, seed) ==
  [orcidId |-> orcid,
   fullName |-> S_Researcher \o Substring04(orcid),
   works |-> Array([k \in 1..MockLength(seed) |-> MockWork(orcid, seed, k - 1)])]

(***************************************************************************)
(* fetchOrcidData: the mapping of a parsed response body.  A work summary   *)
(* is [title, year, type, putCode, extIds]: title is                        *)
(* summary.title?.title?.value, year is                                     *)
(* summary['publication-date']?.year?.value, extIds is                      *)
(* summary['external-ids']?.['external-id'], each optional.  A group is its *)
(* 'work-summary' array, a body is [group |-> optional array of groups].    *)
(***************************************************************************)
\* summary.type.replace(/_/g, ' ')
ReplaceUnderscores(str) ==
  Array([k \in 1..Len(str) |-> IF str[k] = "_" THEN " " ELSE str[k]])

\* JavaScript truthiness of an optional string.
TruthyString(opt) == opt # None /\ opt[1] # <<>>

\* extIds?.find(id => id['external-id-type'] === 'doi')?.['external-id-value']
FindDoi(extIds) ==
  IF extIds = None THEN None
  ELSE LET arr == extIds[1]
           hits == {k \in 1..Len(arr) : arr[k].type = S_doi}
       IN IF hits = {} THEN None
          ELSE Some(arr[CHOOSE k \in hits : \A j \in hits : k <= j].value)

\* A mapping that keeps an empty type and labels only an absent one.
MapSummaryEmptyType(summary) ==
  [title |-> IF TruthyString(summary.title) THEN summary.title[1] ELSE S_Untitled,
   year |-> IF TruthyString(summary.year) THEN ParseInt(summary.year[1]) ELSE Null,
   type |-> IF summary.type # None
            THEN ReplaceUnderscores(summary.type[1])
            ELSE S_UNKNOWN,
   putCode |-> JsNumber(summary.putCode),
   doi |-> FindDoi(summary.extIds)]

\* A mapping that takes the last external id of type doi.
MapSummaryLastDoi(summary) ==
  [title |-> IF TruthyString(summary.title) THEN summary.title[1] ELSE S_Untitled,
   year |-> IF TruthyString(summary.year) THEN ParseInt(summary.year[1]) ELSE Null,
   type |-> IF TruthyString(summary.type)
            THEN ReplaceUnderscores(summary.type[1])
            ELSE S_UNKNOWN,
   putCode |-> JsNumber(summary.putCode),
   doi |-> IF summary.extIds = None THEN None
           ELSE LET arr == summary.extIds[1]
                    hits == {k \in 1..Len(arr) : arr[k].type = S_doi}
                IN IF hits = {} THEN None
                   ELSE Some(arr[CHOOSE k \in hits : \A j \in hits : k >= j].value)]

\* The object built from a group's first summary.
MapSummary(summary) ==
  [title |-> IF TruthyString(summary.title) THEN summary.title[1] ELSE S_Untitled,
   year |-> IF TruthyString(summary.year) THEN ParseInt(summary.year[1]) ELSE Null,
   type |-> IF TruthyString(summary.type)
            THEN ReplaceUnderscores(summary.type[1])
            ELSE S_UNKNOWN,
   putCode |-> JsNumber(summary.putCode),
   doi |-> FindDoi(summary.extIds)]

\* group['work-summary'][0] of an empty array is undefined, and reading a
\* property of it throws a TypeError.
MappingThrows(body) ==
  body.group # None /\ \E k \in 1..Len(body.group[1]) : body.group[1][k] = <<>>

\* (data.group || []).map(...)
MapGroups(body) ==
  IF body.group = None THEN <<>>
  ELSE Array([k \in 1..Len(body.group[1]) |-> MapSummary(body.group[1][k][1])])

RealProfile(cleanId, body) ==
  [orcidId |-> cleanId,
   fullName |-> S_Researcher \o cleanId,
   works |-> MapGroups(body)]

(***************************************************************************)
(* The inputs the environment offers: what the user types and uploads, and  *)
(* what the registry answers.                                               *)
(***************************************************************************)
\* orcid,name / 0000-0002-1825-0097,Alice / bad-id,Bob / 0000-0001-5109-3700,Carol
CsvExample ==
  <<"o","r","c","i","d",",","n","a","m","e","\n","0","0","0","0","-","0","0",
   "0","2","-","1","8","2","5","-","0","0","9","7",",","A","l","i","c","e",
   "\n","b","a","d","-","i","d",",","B","o","b","\n","0","0","0","0","-",
   "0","0","0","1","-","5","1","0","9","-","3","7","0","0",",","C","a","r",
   "o","l">>

\* CRLF lines: Name, ORCID  / Bob / Al, 0000-0002-1694-233X  / Zed,0000-0002-1694-233x / Al,0000-0002-1694-233X / (empty)
CsvPadded ==
  <<"N","a","m","e",","," ","O","R","C","I","D"," ","\r","\n","B","o","b",
   "\r","\n","A","l",","," ","0","0","0","0","-","0","0","0","2","-","1",
   "6","9","4","-","2","3","3","X"," ","\r","\n","Z","e","d",",","0","0",
   "0","0","-","0","0","0","2","-","1","6","9","4","-","2","3","3","x",
   "\r","\n","A","l",",","0","0","0","0","-","0","0","0","2","-","1","6",
   "9","4","-","2","3","3","X","\r","\n">>

\* orcid id,Name / 0000-0002-1825-0097,Alice
CsvNoColumn ==
  <<"o","r","c","i","d"," ","i","d",",","N","a","m","e","\n","0","0","0","0",
   "-","0","0","0","2","-","1","8","2","5","-","0","0","9","7",",","A","l",
   "i","c","e">>

\* orcid / 0000-0002-1825 / 000-00002-1825-0097 / 0000-0002-1825-009A / 0000-0002-1825-0A97 / (empty)
CsvAllBad ==
  <<"o","r","c","i","d","\n","0","0","0","0","-","0","0","0","2","-","1","8",
   "2","5","\n","0","0","0","-","0","0","0","0","2","-","1","8","2","5",
   "-","0","0","9","7","\n","0","0","0","0","-","0","0","0","2","-","1",
   "8","2","5","-","0","0","9","A","\n","0","0","0","0","-","0","0","0",
   "2","-","1","8","2","5","-","0","A","9","7","\n">>

IdA == <<"0","0","0","0","-","0","0","0","2","-","1","8","2","5","-","0","0","9","7">>
IdB == <<"0","0","0","0","-","0","0","0","1","-","5","1","0","9","-","3","7","0","0">>
IdX == <<"0","0","0","0","-","0","0","0","2","-","1","6","9","4","-","2","3","3","X">>
InputBlank == <<" "," ">>
InputPadded == <<" ","0","0","0","0","-","0","0","0","2","-","1","8","2","5","-","0","0","9","7","\t">>
V_T1 == <<"T","1">>
V_2020 == <<"2","0","2","0">>
V_2019 == <<"2","0","1","9">>
V_0 == <<"0">>
V_2021x == <<" ","2","0","2","1","x">>
V_na == <<"n","/","a">>
V_book_chapter == <<"B","O","O","K","_","C","H","A","P","T","E","R">>
V_book == <<"B","O","O","K">>
V_eid == <<"e","i","d">>
V_doi1 == <<"1","0",".","1","/","a">>
V_doi2 == <<"1","0",".","1","/","b">>
V_eidv == <<"e","1">>

\* The text field's values.
SingleIdInputs == {<<>>, InputBlank, InputPadded, IdB}

\* The files the user can pick, by position.
FileTexts == <<CsvExample, CsvPadded, CsvNoColumn, CsvAllBad>>
Files == DOMAIN FileTexts

\* Work summaries of a response body.
SummaryFull ==
  [title |-> Some(V_T1), year |-> Some(V_2020), type |-> Some(V_book_chapter),
   putCode |-> 11,
   extIds |-> Some(<<[type |-> V_eid, value |-> V_eidv],
                     [type |-> S_doi, value |-> V_doi1],
                     [type |-> S_doi, value |-> V_doi2]>>)]
SummaryBare ==
  [title |-> None, year |-> None, type |-> None, putCode |-> 12, extIds |-> None]
SummaryEmptyStrings ==
  [title |-> Some(<<>>), year |-> Some(<<>>), type |-> Some(<<>>), putCode |-> 13,
   extIds |-> Some(<<[type |-> V_eid, value |-> V_eidv]>>)]
SummaryYearZero ==
  [title |-> Some(V_T1), year |-> Some(V_0), type |-> Some(V_book), putCode |-> 14,
   extIds |-> Some(<<>>)]
SummaryYear2019 ==
  [title |-> Some(V_T1), year |-> Some(V_2019), type |-> Some(V_book), putCode |-> 15,
   extIds |-> None]
SummaryYearLoose ==
  [title |-> Some(V_T1), year |-> Some(V_2021x), type |-> Some(V_book_chapter),
   putCode |-> 16, extIds |-> None]
SummaryYearText ==
  [title |-> Some(V_T1), year |-> Some(V_na), type |-> Some(V_book), putCode |-> 17,
   extIds |-> None]

\* The bodies response.json() can resolve to; each group is its
\* 'work-summary' array.
Bodies ==
  { [group |-> None],
    [group |-> Some(<<>>)],
    [group |-> Some(<< <<SummaryFull, SummaryBare>>, <<SummaryYear2019>>,
                       <<SummaryFull>> >>)],
    [group |-> Some(<< <<SummaryYearLoose>>, <<SummaryEmptyStrings>>,
                       <<SummaryYearZero>>, <<SummaryYearText>> >>)],
    [group |-> Some(<< <<SummaryFull>>, <<>> >>)] }

\* The HTTP status of a response; 0 stands for a fetch that rejects (network
\* failure, CORS).
Statuses == {0, 200, 404, 500}

\* The seeds of Math.random tried: the least draw, a middle one, the greatest.
Seeds == {0, RandDen \div 2, RandDen - 1}

(***************************************************************************)
(* The promise of one fetchOrcidData call.                                  *)
(***************************************************************************)
\* const cleanId = orcidId.trim(); then the fetch is issued.
\* caught records that the call went through its catch block, body is the
\* local data once response.json() has resolved.
NewCall(orcidId) ==
  [arg |-> orcidId, cleanId |-> Trim(orcidId), st |-> "fetch", caught |-> FALSE,
   body |-> None, value |-> None]

\* A promise that never settles.
SettledNever(call) == FALSE

Settled(call) == call.st \in {"fulfilled", "rejected"}

\* A loop that issues the calls for all the remaining identifiers at once.
StartFetchesAll(ids, i) == Array([k \in 1..(Len(ids) - i + 1) |-> NewCall(ids[i + k - 1])])

\* The calls a batch issues when its loop reaches identifier i.
StartFetches(ids, i) == <<NewCall(ids[i])>>

\* A push at the front of the results.
PushFront(results, profile) == <<profile>> \o results

\* results.push(result)
PushResult(results, profile) == Append(results, profile)

\* A test for the empty batch that never fires.
EmptyBatchNever(ids) == FALSE

\* if (ids.length === 0) throw new Error("No valid ORCID IDs found in file.")
EmptyBatch(ids) == Len(ids) = 0

\* The run of a handler: kind is the handler, pc its position ("parse":
\* awaiting parseCsvFile, "await": awaiting fetchOrcidData, "done":
\* returned), calls the fetchOrcidData calls it made, i the awaited one.
NewSingleRun(id) ==
  [kind |-> "single", pc |-> "await", file |-> 0, parse |-> Resolved(<<>>),
   ids |-> <<>>, i |-> 1, results |-> <<>>, calls |-> <<NewCall(id)>>]

NewBatchRun(f) ==
  [kind |-> "batch", pc |-> "parse", file |-> f, parse |-> Reading,
   ids |-> <<>>, i |-> 0, results |-> <<>>, calls |-> <<>>]

Live(rs) == SelectSeq(rs, LAMBDA r : r.pc # "done")

\* A button that stays enabled while an analysis is running.
AnalyzeDisabledIdle ==
  \/ (inputType = "single" /\ singleId = <<>>)
  \/ (inputType = "batch" /\ csvFile = None)

\* The Analyze button's disabled attribute.
AnalyzeDisabled ==
  \/ loading
  \/ (inputType = "single" /\ singleId = <<>>)
  \/ (inputType = "batch" /\ csvFile = None)

(***************************************************************************)
(* ChatBot: the messages, the chat session of the SDK and the exchanges.    *)
(* App renders <ChatBot contextData={stats} />.  A message is               *)
(* [id, role, text, isThinking], isThinking optional; its timestamp is      *)
(* never read and is left out.                                              *)
(***************************************************************************)
S_welcome == <<"w","e","l","c","o","m","e">>
S_user == <<"u","s","e","r">>
S_model == <<"m","o","d","e","l">>

\* The text of the message the catch block adds.
ApologyText ==
  <<"I","'","m"," ","s","o","r","r","y",","," ","I"," ","e","n","c","o","u",
   "n","t","e","r","e","d"," ","a","n"," ","e","r","r","o","r"," ","c","o",
   "n","n","e","c","t","i","n","g"," ","t","o"," ","G","e","m","i","n","i",
   "."," ","P","l","e","a","s","e"," ","t","r","y"," ","a","g","a","i","n",
   ".">>

\* The first message of the list; its text is never compared and is cut
\* after its first word.
WelcomeMessage ==
  [id |-> S_welcome, role |-> S_model, text |-> <<"H","e","l","l","o","!">>,
   isThinking |-> None]

\* Number.prototype.toFixed(1) of a quotient: the tenths nearest to it, the
\* larger of two equally near.
ToFixed1(q) ==
  LET tenths == (20 * q.num + q.den) \div (2 * q.den)
  IN NatToString(tenths \div 10) \o <<".">> \o NatToString(tenths % 10)

\* arr.slice(0, 3)
Slice03(arr) == SubSeq(arr, 1, IF Len(arr) < 3 THEN Len(arr) ELSE 3)

\* Array.prototype.join(', ')
RECURSIVE JoinComma(_)
JoinComma(parts) ==
  IF parts = <<>> THEN <<>>
  ELSE IF Len(parts) = 1 THEN parts[1]
  ELSE parts[1] \o <<",", " ">> \o JoinComma(Tail(parts))

\* `${label} (${count})`
LabelCount(label, count) == label \o <<" ", "(">> \o NumberToString(count) \o <<")">>

\* The system instruction: the fixed preamble, and for a summary the values
\* the template interpolates into the briefing block, in its order.
SystemInstruction(contextData) ==
  IF contextData = None THEN [preamble |-> "research assistant", context |-> None]
  ELSE LET c == contextData[1]
           years == Slice03(c.publicationsByYear)
           types == Slice03(c.publicationsByType)
       IN [preamble |-> "research assistant",
           context |-> Some(
             [totalResearchers |-> NumberToString(c.totalResearchers),
              totalPublications |-> NumberToString(c.totalPublications),
              avgPublications |-> ToFixed1(c.avgPublications),
              topYears |-> JoinComma(Array([k \in 1..Len(years) |->
                              LabelCount(NumberToString(years[k].year), years[k].count)])),
              topTypes |-> JoinComma(Array([k \in 1..Len(types) |->
                              LabelCount(types[k].type, types[k].count)]))])]

\* ai.chats.create({model, config: {systemInstruction}}): a session with no
\* turn sent through it yet.
NewSession(systemInstruction) ==
  [systemInstruction |-> systemInstruction, sent |-> <<>>]

\* An effect with no dependency, which runs on mount only.
EffectRunsOnMount(old, new) == FALSE

\* useEffect(..., [contextData]): the effect runs when the prop is another
\* value; the memo returns a new object for every collection but the empty
\* one, for which it returns null.
EffectRuns(old, new) == ~(old = None /\ new = None)

\* The session after the effect has run, or not, for the props old and new.
SessionAfter(session, key, old, new) ==
  IF EffectRuns(old, new) /\ key THEN Some(NewSession(SystemInstruction(new)))
  ELSE session

\* The state of ChatBot after its first render and effect.
ChatMounted ==
  /\ isOpen = FALSE
  /\ messages = <<WelcomeMessage>>
  /\ inputValue = <<>>
  /\ isProcessing = FALSE
  /\ exchanges = <<>>
  /\ now = 0
  /\ chatSession = IF apiKey THEN Some(NewSession(SystemInstruction(None))) ELSE None

(***************************************************************************)
(* The state machine.                                                       *)
(***************************************************************************)
Init ==
  /\ inputType = "single"
  /\ singleId = <<>>
  /\ csvFile = None
  /\ loading = FALSE
  /\ error = None
  /\ data = <<>>
  /\ stats = ComputeStats(<<>>)
  /\ runs = <<>>
  /\ apiKey \in BOOLEAN
  /\ ChatMounted

\* setData(d) and the render that follows it, which recomputes the memo and
\* runs the effect of ChatBot on its new prop.
SetData(d) ==
  /\ data' = d
  /\ stats' = ComputeStats(d)
  /\ chatSession' = SessionAfter(chatSession, apiKey, stats, ComputeStats(d))

\* The tab buttons.
SetInputType(t) ==
  /\ inputType # t
  /\ inputType' = t
  /\ UNCHANGED <<singleId, csvFile, loading, error, data, stats, chatSession, runs>>
  /\ UNCHANGED chatVars

\* The text field's onChange.
SetSingleId(str) ==
  /\ singleId # str
  /\ singleId' = str
  /\ UNCHANGED <<inputType, csvFile, loading, error, data, stats, chatSession, runs>>
  /\ UNCHANGED chatVars

\* handleFileUpload
HandleFileUpload(f) ==
  /\ inputType = "batch"
  /\ csvFile # Some(f)
  /\ csvFile' = Some(f)
  /\ UNCHANGED <<inputType, singleId, loading, error, data, stats, chatSession, runs>>
  /\ UNCHANGED chatVars

\* A click on Analyze in single mode: handleSingleAnalyze up to its await.
HandleSingleAnalyze ==
  /\ ~AnalyzeDisabled
  /\ inputType = "single"
  /\ IF Trim(singleId) = <<>>
     THEN UNCHANGED <<loading, error, data, stats, chatSession, runs>>
     ELSE /\ loading' = TRUE
          /\ error' = None
          /\ SetData(<<>>)
          /\ runs' = Append(Live(runs), NewSingleRun(singleId))
  /\ UNCHANGED <<inputType, singleId, csvFile>>
  /\ UNCHANGED chatVars

\* A click on Analyze in batch mode: handleBatchAnalyze up to its first await.
HandleBatchAnalyze ==
  /\ ~AnalyzeDisabled
  /\ inputType = "batch"
  /\ IF csvFile = None
     THEN UNCHANGED <<loading, error, data, stats, chatSession, runs>>
     ELSE /\ loading' = TRUE
          /\ error' = None
          /\ SetData(<<>>)
          /\ runs' = Append(Live(runs), NewBatchRun(csvFile[1]))
  /\ UNCHANGED <<inputType, singleId, csvFile>>
  /\ UNCHANGED chatVars

\* reader.onload
CsvLoads(r) ==
  /\ runs[r].pc = "parse"
  /\ runs[r].parse.st = "reading"
  /\ runs' = [runs EXCEPT ![r].parse = ParseCsvText(FileTexts[runs[r].file])]
  /\ UNCHANGED <<inputType, singleId, csvFile, loading, error, data, stats, chatSession>>
  /\ UNCHANGED chatVars

\* reader.onerror
CsvFails(r) ==
  /\ runs[r].pc = "parse"
  /\ runs[r].parse.st = "reading"
  /\ runs' = [runs EXCEPT ![r].parse = Rejected(MsgReadFailed)]
  /\ UNCHANGED <<inputType, singleId, csvFile, loading, error, data, stats, chatSession>>
  /\ UNCHANGED chatVars

\* handleBatchAnalyze resumes after await parseCsvFile.
BatchAfterParse(r) ==
  LET run == runs[r]
  IN /\ run.pc = "parse"
     /\ run.parse.st # "reading"
     /\ IF run.parse.st = "rejected"
        THEN /\ error' = Some(run.parse.reason)
             /\ loading' = FALSE
             /\ runs' = [runs EXCEPT ![r].pc = "done"]
             /\ UNCHANGED <<data, stats, chatSession>>
        ELSE IF EmptyBatch(run.parse.ids)
        THEN /\ error' = Some(MsgNoIds)
             /\ loading' = FALSE
             /\ runs' = [runs EXCEPT ![r].pc = "done", ![r].ids = run.parse.ids]
             /\ UNCHANGED <<data, stats, chatSession>>
        ELSE IF Len(run.parse.ids) = 0
        THEN \* the for loop has nothing to iterate over
             /\ SetData(<<>>)
             /\ loading' = FALSE
             /\ runs' = [runs EXCEPT ![r].pc = "done", ![r].ids = run.parse.ids]
             /\ UNCHANGED error
        ELSE /\ runs' = [runs EXCEPT ![r].pc = "await",
                                     ![r].ids = run.parse.ids,
                                     ![r].i = 1,
                                     ![r].calls = StartFetches(run.parse.ids, 1)]
             /\ UNCHANGED <<error, loading, data, stats, chatSession>>
     /\ UNCHANGED <<inputType, singleId, csvFile>>
     /\ UNCHANGED chatVars

\* The fetch of call c settles: a rejection or a status that is not ok
\* throws into the catch block, which arms the 500 ms timer.
FetchSettles(r, c) ==
  /\ runs[r].calls[c].st = "fetch"
  /\ \E status \in Statuses :
       runs' = [runs EXCEPT ![r].calls[c].st = IF status = 200 THEN "json" ELSE "timer",
                            ![r].calls[c].caught = (status # 200)]
  /\ UNCHANGED <<inputType, singleId, csvFile, loading, error, data, stats, chatSession>>
  /\ UNCHANGED chatVars

\* response.json() rejects (the body is not JSON): the catch block again.
JsonFails(r, c) ==
  /\ runs[r].calls[c].st = "json"
  /\ runs' = [runs EXCEPT ![r].calls[c].st = "timer", ![r].calls[c].caught = TRUE]
  /\ UNCHANGED <<inputType, singleId, csvFile, loading, error, data, stats, chatSession>>
  /\ UNCHANGED chatVars

\* response.json() resolves: the groups are mapped and the call returns, or
\* the mapping throws into the catch block.
JsonSettles(r, c) ==
  /\ runs[r].calls[c].st = "json"
  /\ \E body \in Bodies :
       LET call == runs[r].calls[c]
       IN runs' = [runs EXCEPT ![r].calls[c] =
                     IF MappingThrows(body)
                     THEN [call EXCEPT !.st = "timer", !.caught = TRUE,
                                       !.body = Some(body)]
                     ELSE [call EXCEPT !.st = "fulfilled", !.body = Some(body),
                                       !.value = Some(RealProfile(call.cleanId, body))]]
  /\ UNCHANGED <<inputType, singleId, csvFile, loading, error, data, stats, chatSession>>
  /\ UNCHANGED chatVars

\* The timer of the catch block fires: resolve(generateMockData(cleanId)).
TimerFires(r, c) ==
  /\ runs[r].calls[c].st = "timer"
  /\ \E seed \in Seeds :
       LET call == runs[r].calls[c]
       IN runs' = [runs EXCEPT ![r].calls[c] =
                     [call EXCEPT !.st = "fulfilled",
                                  !.value = Some(GenerateMockData(call.cleanId, seed))]]
  /\ UNCHANGED <<inputType, singleId, csvFile, loading, error, data, stats, chatSession>>
  /\ UNCHANGED chatVars

\* handleSingleAnalyze resumes after await fetchOrcidData.
SingleAfterFetch(r) ==
  LET run == runs[r]
      call == run.calls[run.i]
  IN /\ run.kind = "single"
     /\ run.pc = "await"
     /\ Settled(call)
     /\ IF call.st = "fulfilled"
        THEN /\ SetData(<<call.value[1]>>)
             /\ UNCHANGED error
        ELSE /\ error' = Some(MsgAnalyzeFailed)
             /\ UNCHANGED <<data, stats, chatSession>>
     /\ loading' = FALSE
     /\ runs' = [runs EXCEPT ![r].pc = "done",
                             ![r].results = IF call.st = "fulfilled"
                                            THEN <<call.value[1]>> ELSE <<>>]
     /\ UNCHANGED <<inputType, singleId, csvFile>>
     /\ UNCHANGED chatVars

\* handleBatchAnalyze resumes after await fetchOrcidData inside the loop:
\* the result is pushed (or the identifier skipped), then the next call is
\* made, or the loop ends with setData(results).
BatchAfterFetch(r) ==
  LET run == runs[r]
      call == run.calls[run.i]
      results == IF call.st = "fulfilled"
                 THEN PushResult(run.results, call.value[1])
                 ELSE run.results
  IN /\ run.kind = "batch"
     /\ run.pc = "await"
     /\ Settled(call)
     /\ IF run.i < Len(run.ids)
        THEN /\ runs' = [runs EXCEPT ![r].results = results,
                                     ![r].i = run.i + 1,
                                     ![r].calls = run.calls \o StartFetches(run.ids, run.i + 1)]
             /\ UNCHANGED <<loading, data, stats, chatSession>>
        ELSE /\ SetData(results)
             /\ loading' = FALSE
             /\ runs' = [runs EXCEPT ![r].results = results, ![r].pc = "done"]
     /\ UNCHANGED <<inputType, singleId, csvFile, error>>
     /\ UNCHANGED chatVars

Next ==
  \/ \E t \in {"single", "batch"} : SetInputType(t)
  \/ \E str \in SingleIdInputs : SetSingleId(str)
  \/ \E f \in Files : HandleFileUpload(f)
  \/ HandleSingleAnalyze
  \/ HandleBatchAnalyze
  \/ \E r \in DOMAIN runs : CsvLoads(r)
  \/ \E r \in DOMAIN runs : CsvFails(r)
  \/ \E r \in DOMAIN runs : BatchAfterParse(r)
  \/ \E r \in DOMAIN runs : SingleAfterFetch(r)
  \/ \E r \in DOMAIN runs : BatchAfterFetch(r)
  \/ \E r \in DOMAIN runs : \E c \in DOMAIN runs[r].calls : FetchSettles(r, c)
  \/ \E r \in DOMAIN runs : \E c \in DOMAIN runs[r].calls : JsonFails(r, c)
  \/ \E r \in DOMAIN runs : \E c \in DOMAIN runs[r].calls : JsonSettles(r, c)
  \/ \E r \in DOMAIN runs : \E c \in DOMAIN runs[r].calls : TimerFires(r, c)

Spec == Init /\ [][Next]_vars

(***************************************************************************)
(* The memo on its own: App.stats applied to the collections a caller can   *)
(* hand it, whatever their origin.                                          *)
(***************************************************************************)
MaxStatsWorks == 2
MaxStatsProfiles == 2

\* The sequences over S of length at most n.
SeqsUpTo(S, n) == UNION {{Array(f) : f \in [1..k -> S]} : k \in 0..n}

V_7 == <<"7">>
V_12 == <<"1","2">>

\* The types of the works tried: a label, the empty string, and two labels
\* that are canonical array indices as property keys.  null is tried in
\* ExampleTypes.
StatsTypes == {S_BOOK, <<>>, V_7, V_12}

StatsWork(type) ==
  [title |-> S_Untitled, year |-> Null, type |-> type, putCode |-> JsNumber(1),
   doi |-> None]

StatsProfile(types) ==
  [orcidId |-> IdA, fullName |-> S_Researcher \o IdA,
   works |-> Array([k \in 1..Len(types) |-> StatsWork(types[k])])]

\* A profile with works of types JOURNAL_ARTICLE, JOURNAL_ARTICLE, "", null.
ExampleTypes == <<S_JOURNAL_ARTICLE, S_JOURNAL_ARTICLE, <<>>, NullString>>

StatsProfiles ==
  {StatsProfile(ts) : ts \in SeqsUpTo(StatsTypes, MaxStatsWorks) \cup {ExampleTypes}}

StatsInit ==
  /\ inputType = "single"
  /\ singleId = <<>>
  /\ csvFile = None
  /\ loading = FALSE
  /\ error = None
  /\ runs = <<>>
  /\ data = <<>>
  /\ stats = ComputeStats(data)
  /\ apiKey \in BOOLEAN
  /\ ChatMounted

\* A profile joins the collection and the memo is recomputed.
AddProfile(p) ==
  /\ Len(data) < MaxStatsProfiles
  /\ SetData(Append(data, p))
  /\ UNCHANGED <<inputType, singleId, csvFile, loading, error, runs>>
  /\ UNCHANGED chatVars

\* The collection is emptied and the memo recomputed.
ClearProfiles ==
  /\ data # <<>>
  /\ SetData(<<>>)
  /\ UNCHANGED <<inputType, singleId, csvFile, loading, error, runs>>
  /\ UNCHANGED chatVars

StatsNext ==
  \/ \E p \in StatsProfiles : AddProfile(p)
  \/ ClearProfiles

StatsSpec == StatsInit /\ [][StatsNext]_vars

(***************************************************************************)
(* ChatBot on its own: the component with the props App can hand it.  now   *)
(* is Date.now(); the clock does not go back, and a change of the text      *)
(* field by the user takes at least one millisecond.                        *)
(***************************************************************************)
MaxNow == 3
MaxTurns == 2
MaxChunks == 2

V_hi == <<"h","i">>
V_blank == <<" ">>
V_o == <<"o">>

\* The values of the chat's text field.
ChatInputs == {<<>>, V_blank, V_hi}

\* The text of a chunk of the stream; a chunk can have none.
ChunkTexts == {<<>>, V_o}

\* The collections whose summary App hands to ChatBot.
ChatCollections ==
  {<<>>,
   <<GenerateMockData(IdA, 0)>>,
   <<RealProfile(IdB, [group |-> Some(<< <<SummaryFull>>, <<SummaryYear2019>> >>)]),
     GenerateMockData(IdA, 0)>>}

\* The milliseconds that can pass before a continuation that reads the clock
\* runs.
Delays == {d \in {0, 1} : now + d <= MaxNow}

\* An exchange is one activation of handleSend: pc is its position
\* ("sending": awaiting sendMessageStream, "streaming": in the for await
\* loop, "done": returned), instruction the system instruction of the
\* session the message was sent through, placeholderAt the position at
\* which it pushed its placeholder (0 before), failed whether it went
\* through its catch block.
NewExchange(message, session) ==
  [pc |-> "sending", message |-> message,
   instruction |-> session.systemInstruction,
   modelMsgId |-> <<>>, fullResponse |-> <<>>, placeholderAt |-> 0, chunks |-> 0,
   failed |-> FALSE]

LiveExchanges(es) == SelectSeq(es, LAMBDA e : e.pc # "done")

\* A text field that is never disabled.
InputDisabledNever == FALSE

\* The text field's disabled attribute.
InputDisabled == isProcessing

\* The send button's disabled attribute.
SendDisabled == Trim(inputValue) = <<>> \/ isProcessing

UserMessage(t, text) ==
  [id |-> NumberToString(t), role |-> S_user, text |-> text, isThinking |-> None]

PlaceholderMessage(id) ==
  [id |-> id, role |-> S_model, text |-> <<>>, isThinking |-> Some(TRUE)]

ApologyMessage(t) ==
  [id |-> NumberToString(t), role |-> S_model, text |-> ApologyText,
   isThinking |-> None]

\* The catch block: setMessages(prev => [...prev, apology]).
Caught(msgs, e, t) == Append(msgs, ApologyMessage(t))

\* prev.map(msg => msg.id === modelMsgId ? {...msg, text, isThinking: false} : msg)
WithResponse(msgs, modelMsgId, text) ==
  Array([k \in 1..Len(msgs) |->
           IF msgs[k].id = modelMsgId
           THEN [msgs[k] EXCEPT !.text = text, !.isThinking = Some(FALSE)]
           ELSE msgs[k]])

\* The floating button.
ToggleOpen ==
  /\ isOpen' = ~isOpen
  /\ UNCHANGED <<apiKey, messages, inputValue, isProcessing, exchanges, now>>
  /\ UNCHANGED <<data, stats, chatSession>>
  /\ UNCHANGED appVars

\* The text field's onChange.
SetInputValue(str) ==
  /\ isOpen
  /\ ~InputDisabled
  /\ str # inputValue
  /\ now < MaxNow
  /\ inputValue' = str
  /\ now' = now + 1
  /\ UNCHANGED <<apiKey, isOpen, messages, isProcessing, exchanges>>
  /\ UNCHANGED <<data, stats, chatSession>>
  /\ UNCHANGED appVars

\* Enter in the text field or a click on the send button: handleSend up to
\* its await.
HandleSend ==
  /\ isOpen
  /\ ~InputDisabled \/ ~SendDisabled
  /\ Len(SelectSeq(messages, LAMBDA m : m.role = S_user)) < MaxTurns
  /\ IF Trim(inputValue) = <<>> \/ chatSession = None
     THEN UNCHANGED <<messages, inputValue, isProcessing, exchanges, chatSession>>
     ELSE /\ messages' = Append(messages, UserMessage(now, inputValue))
          /\ inputValue' = <<>>
          /\ isProcessing' = TRUE
          /\ chatSession' = Some([chatSession[1] EXCEPT !.sent = Append(@, inputValue)])
          /\ exchanges' = Append(LiveExchanges(exchanges),
                                 NewExchange(inputValue, chatSession[1]))
  /\ UNCHANGED <<apiKey, isOpen, now>>
  /\ UNCHANGED <<data, stats>>
  /\ UNCHANGED appVars

\* sendMessageStream resolves: the placeholder is pushed.
SendResolves(e) ==
  /\ exchanges[e].pc = "sending"
  /\ \E d \in Delays :
       /\ now' = now + d
       /\ messages' = Append(messages, PlaceholderMessage(NumberToString(now' + 1)))
       /\ exchanges' = [exchanges EXCEPT ![e].pc = "streaming",
                                         ![e].modelMsgId = NumberToString(now' + 1),
                                         ![e].placeholderAt = Len(messages) + 1]
  /\ UNCHANGED <<apiKey, isOpen, inputValue, isProcessing>>
  /\ UNCHANGED <<data, stats, chatSession>>
  /\ UNCHANGED appVars

\* sendMessageStream rejects: the catch block, then finally.
SendFails(e) ==
  /\ exchanges[e].pc = "sending"
  /\ \E d \in Delays :
       /\ now' = now + d
       /\ messages' = Caught(messages, exchanges[e], now')
  /\ isProcessing' = FALSE
  /\ exchanges' = [exchanges EXCEPT ![e].pc = "done", ![e].failed = TRUE]
  /\ UNCHANGED <<apiKey, isOpen, inputValue>>
  /\ UNCHANGED <<data, stats, chatSession>>
  /\ UNCHANGED appVars

\* A chunk of the stream arrives; one without text changes nothing.
ChunkArrives(e) ==
  /\ exchanges[e].pc = "streaming"
  /\ exchanges[e].chunks < MaxChunks
  /\ \E text \in ChunkTexts :
       LET fullResponse == exchanges[e].fullResponse \o text
       IN /\ exchanges' = [exchanges EXCEPT ![e].chunks = @ + 1,
                                            ![e].fullResponse = fullResponse]
          /\ messages' = IF text # <<>>
                         THEN WithResponse(messages, exchanges[e].modelMsgId, fullResponse)
                         ELSE messages
  /\ UNCHANGED <<apiKey, isOpen, inputValue, isProcessing, now>>
  /\ UNCHANGED <<data, stats, chatSession>>
  /\ UNCHANGED appVars

\* The stream ends: finally.
StreamEnds(e) ==
  /\ exchanges[e].pc = "streaming"
  /\ isProcessing' = FALSE
  /\ exchanges' = [exchanges EXCEPT ![e].pc = "done"]
  /\ UNCHANGED <<apiKey, isOpen, inputValue, messages, now>>
  /\ UNCHANGED <<data, stats, chatSession>>
  /\ UNCHANGED appVars

\* The stream throws: the catch block, then finally.
StreamFails(e) ==
  /\ exchanges[e].pc = "streaming"
  /\ \E d \in Delays :
       /\ now' = now + d
       /\ messages' = Caught(messages, exchanges[e], now')
  /\ isProcessing' = FALSE
  /\ exchanges' = [exchanges EXCEPT ![e].pc = "done", ![e].failed = TRUE]
  /\ UNCHANGED <<apiKey, isOpen, inputValue>>
  /\ UNCHANGED <<data, stats, chatSession>>
  /\ UNCHANGED appVars

\* App renders ChatBot with the summary of another collection.
ContextChanges(d) ==
  /\ ~(d = <<>> /\ data = <<>>)
  /\ SetData(d)
  /\ UNCHANGED chatVars
  /\ UNCHANGED appVars

ChatNext ==
  \/ ToggleOpen
  \/ \E str \in ChatInputs : SetInputValue(str)
  \/ HandleSend
  \/ \E e \in DOMAIN exchanges : SendResolves(e)
  \/ \E e \in DOMAIN exchanges : SendFails(e)
  \/ \E e \in DOMAIN exchanges : ChunkArrives(e)
  \/ \E e \in DOMAIN exchanges : StreamEnds(e)
  \/ \E e \in DOMAIN exchanges : StreamFails(e)
  \/ \E d \in ChatCollections : ContextChanges(d)

ChatSpec == Init /\ [][ChatNext]_vars

(***************************************************************************)
(* The dashboard with its pending work done in the end: a file read, a      *)
(* fetch, a body read and the fallback timer settle, and a handler whose    *)
(* awaited promise has settled resumes.                                     *)
(***************************************************************************)
\* A step of the analysis in progress that waits for no user.
Progress ==
  \/ \E r \in DOMAIN runs : CsvLoads(r) \/ CsvFails(r)
  \/ \E r \in DOMAIN runs : BatchAfterParse(r)
  \/ \E r \in DOMAIN runs : SingleAfterFetch(r)
  \/ \E r \in DOMAIN runs : BatchAfterFetch(r)
  \/ \E r \in DOMAIN runs : \E c \in DOMAIN runs[r].calls :
       FetchSettles(r, c) \/ JsonSettles(r, c) \/ JsonFails(r, c) \/ TimerFires(r, c)

\* Whether some step of Progress can be taken: the guards of its disjuncts.
ProgressEnabled ==
  \E r \in DOMAIN runs :
    \/ runs[r].pc = "parse"
    \/ /\ runs[r].pc = "await"
       /\ \/ Settled(runs[r].calls[runs[r].i])
          \/ \E c \in DOMAIN runs[r].calls : runs[r].calls[c].st \in {"fetch", "json", "timer"}

\* Weak fairness of Progress, WF_vars(Progress), written out with the guards
\* above in the place of ENABLED <<Progress>>_vars.
FairSpec == Spec /\ ([]<>(~ProgressEnabled) \/ []<><<Progress>>_vars)

(***************************************************************************)
(* The claims.                                                              *)
(***************************************************************************)
\* Every fetchOrcidData call made so far, as <<run, call>> positions.
CallIds == UNION {{<<r, c>> : c \in DOMAIN runs[r].calls} : r \in DOMAIN runs}
CallAt(rc) == runs[rc[1]].calls[rc[2]]

\* id is str without its leading and trailing white space: str is a run of
\* white space, then id, then a run of white space, and id neither begins
\* nor ends with white space.
IsTrimOf(id, str) ==
  /\ (id # <<>> => id[1] \notin WhiteSpace /\ id[Len(id)] \notin WhiteSpace)
  /\ \E a \in 0..Len(str) :
       /\ a + Len(id) <= Len(str)
       /\ SubSeq(str, a + 1, a + Len(id)) = id
       /\ \A k \in 1..Len(str) :
            (k <= a \/ k > a + Len(id)) => str[k] \in WhiteSpace

\* A synthetic profile: every work carries a string put code ("mock-i").
IsSynthetic(profile) ==
  \A k \in 1..Len(profile.works) : profile.works[k].putCode.t = "string"

\* C1: a fetchOrcidData call never raises; the profile it resolves to has the
\* identifier it was given (the input is taken trimmed: it is the given
\* string without the white space around it, hence the given string itself
\* when there is none), and after a failed request (fetch rejected, status
\* not ok, body not JSON or not of the expected shape) the profile is
\* synthetic with 5 to 24 works.
C1_FetchNeverRaises ==
  \A rc \in CallIds :
    /\ CallAt(rc).st # "rejected"
    /\ CallAt(rc).st = "fulfilled" =>
         /\ CallAt(rc).value # None
         /\ IsTrimOf(CallAt(rc).value[1].orcidId, CallAt(rc).arg)
         /\ IsTrimOf(CallAt(rc).arg, CallAt(rc).arg) =>
              CallAt(rc).value[1].orcidId = CallAt(rc).arg
         /\ CallAt(rc).caught =>
              /\ IsSynthetic(CallAt(rc).value[1])
              /\ Len(CallAt(rc).value[1].works) \in 5..24

\* A call given an identifier with white space around it has failed and
\* resolved to its fallback profile of the greatest length.
C1_Witness ==
  \E rc \in CallIds :
    /\ CallAt(rc).st = "fulfilled"
    /\ CallAt(rc).caught
    /\ CallAt(rc).arg = InputPadded
    /\ Len(CallAt(rc).value[1].works) = 24

\* C2: a batch whose identifier list is empty issues no fetchOrcidData call,
\* leaves the collection empty, and ends with the "no valid ids" error shown.
C2_EmptyBatchFails ==
  \A r \in DOMAIN runs :
    (runs[r].kind = "batch" /\ runs[r].parse.st = "resolved"
       /\ runs[r].parse.ids = <<>>) =>
      /\ runs[r].calls = <<>>
      /\ data = <<>>
      /\ stats = None
      /\ runs[r].pc \in {"parse", "done"}
      /\ runs[r].pc = "done" => (error = Some(MsgNoIds) /\ ~loading)

\* A batch over a file with an identifier column and no valid identifier has
\* returned.
C2_Witness ==
  \E r \in DOMAIN runs :
    /\ runs[r].kind = "batch"
    /\ runs[r].pc = "done"
    /\ runs[r].parse.st = "resolved"
    /\ runs[r].parse.ids = <<>>
    /\ error = Some(MsgNoIds)

\* C3: in a batch at most one fetchOrcidData call is unsettled, and a call
\* is made only when every earlier call of the batch has settled; a call
\* waiting for its fallback timer is unsettled.
C3_SequentialFetches ==
  \A r \in DOMAIN runs :
    runs[r].kind = "batch" =>
      /\ Cardinality({c \in DOMAIN runs[r].calls : ~Settled(runs[r].calls[c])}) <= 1
      /\ \A c \in DOMAIN runs[r].calls :
           c < Len(runs[r].calls) => Settled(runs[r].calls[c])

\* The second call of a batch waits for its fallback timer, the first one
\* having resolved through its own fallback.
C3_Witness ==
  \E r \in DOMAIN runs :
    /\ runs[r].kind = "batch"
    /\ Len(runs[r].calls) = 2
    /\ runs[r].calls[1].st = "fulfilled"
    /\ runs[r].calls[1].caught
    /\ runs[r].calls[2].st = "timer"

\* The profiles of the fulfilled calls among the first n, in call order.
RECURSIVE FulfilledProfiles(_, _)
FulfilledProfiles(calls, n) ==
  IF n = 0 THEN <<>>
  ELSE IF calls[n].st = "fulfilled"
       THEN Append(FulfilledProfiles(calls, n - 1), calls[n].value[1])
       ELSE FulfilledProfiles(calls, n - 1)

\* C4: a batch with identifiers calls fetchOrcidData once per identifier in
\* input order, collects the profiles of the successful calls in that order,
\* goes on after a failed call, and returns exactly those profiles.
C4_BatchInOrder ==
  \A r \in DOMAIN runs :
    (runs[r].kind = "batch" /\ runs[r].pc \in {"await", "done"}
       /\ runs[r].ids # <<>>) =>
      /\ Len(runs[r].calls) <= Len(runs[r].ids)
      /\ \A c \in DOMAIN runs[r].calls : runs[r].calls[c].arg = runs[r].ids[c]
      /\ runs[r].pc = "await" =>
           /\ runs[r].i = Len(runs[r].calls)
           /\ runs[r].results = FulfilledProfiles(runs[r].calls, runs[r].i - 1)
      /\ runs[r].pc = "done" =>
           /\ Len(runs[r].calls) = Len(runs[r].ids)
           /\ runs[r].results = FulfilledProfiles(runs[r].calls, Len(runs[r].ids))
           /\ data = runs[r].results
           /\ \A k \in 1..Len(data) : data[k].orcidId = runs[r].ids[k]

\* A batch over a file that names the same identifier twice has returned two
\* different profiles for it, the first real and the second synthetic.
C4_Witness ==
  \E r \in DOMAIN runs :
    /\ runs[r].kind = "batch"
    /\ runs[r].pc = "done"
    /\ Len(runs[r].ids) = 2
    /\ runs[r].ids[1] = runs[r].ids[2]
    /\ Len(data) = 2
    /\ ~IsSynthetic(data[1]) /\ data[1].works # <<>>
    /\ IsSynthetic(data[2])

\* C5: at most one analyze handler is running, and one is running exactly
\* while loading is set, so none can start before the running one returns.
C5_OneAnalysisAtATime ==
  /\ Len(Live(runs)) <= 1
  /\ loading <=> (Len(Live(runs)) = 1)

\* An analysis is running while the inputs for another one are ready: only
\* the loading flag keeps the button disabled.
C5_Witness ==
  /\ loading
  /\ Len(Live(runs)) = 1
  /\ AnalyzeDisabled
  /\ ~AnalyzeDisabledIdle

\* The cells of a line of the file, as the claims speak of them.
Cells(line) == Split(line, ",")

\* The columns (1-based) whose header cell is "orcid" after trimming and
\* case-folding.
OrcidHeaderColumns(text) ==
  LET cells == Cells(SplitLines(text)[1])
  IN {k \in 1..Len(cells) : ToLowerCase(Trim(cells[k])) = S_orcid}

\* C6: a file whose header row has no cell equal to "orcid" after trimming
\* and case-folding makes parseCsvFile reject with the missing-column error
\* whatever its data rows are; the batch shows that error and calls
\* fetchOrcidData for no identifier.
C6_MissingColumnRejected ==
  \A r \in DOMAIN runs :
    (runs[r].kind = "batch" /\ OrcidHeaderColumns(FileTexts[runs[r].file]) = {}
       /\ runs[r].parse.st # "reading" /\ runs[r].parse.reason # MsgReadFailed) =>
      /\ runs[r].parse.st = "rejected"
      /\ runs[r].parse.reason = MsgNoColumn
      /\ runs[r].calls = <<>>
      /\ runs[r].pc \in {"parse", "done"}
      /\ data = <<>>
      /\ runs[r].pc = "done" => (error = Some(MsgNoColumn) /\ ~loading)

\* A batch over a file whose header is "orcid id,Name", with a valid
\* identifier in its data row, has returned with the error shown.
C6_Witness ==
  \E r \in DOMAIN runs :
    /\ runs[r].kind = "batch"
    /\ runs[r].pc = "done"
    /\ FileTexts[runs[r].file] = CsvNoColumn
    /\ runs[r].parse.reason = MsgNoColumn
    /\ error = Some(MsgNoColumn)

\* The pattern as the claim words it: four groups of four characters
\* separated by hyphens, the first twelve of them digits, the last one a
\* digit or X.
StatedPattern(s) ==
  /\ Len(s) = 19
  /\ \A k \in 1..19 : (s[k] = "-") <=> (k \in {5, 10, 15})
  /\ \A k \in 1..14 : k \notin {5, 10} => s[k] \in Digits
  /\ s[19] \in Digits \cup {"X"}

\* The pattern with every character but the hyphens and the last a digit.
DigitPattern(s) ==
  /\ StatedPattern(s)
  /\ \A k \in 16..18 : s[k] \in Digits

\* The trimmed identifier-column cells of the data rows long enough to have
\* that column, in file order; col is the 1-based column.
ColumnCells(text, col) ==
  LET lines == SplitLines(text)
      rows == SelectSeq(SubSeq(lines, 2, Len(lines)),
                        LAMBDA line : Len(Cells(line)) >= col)
  IN Array([k \in 1..Len(rows) |-> Trim(Cells(rows[k])[col])])

\* The least column whose header cell is "orcid".
FirstOrcidColumn(text) ==
  CHOOSE k \in OrcidHeaderColumns(text) : \A j \in OrcidHeaderColumns(text) : k <= j

\* C7 as stated: with an "orcid" column in the header, the identifiers
\* parseCsvFile resolves to are exactly the trimmed cells of that column that
\* match the pattern as the claim words it, in file order with duplicates.
C7_Original ==
  \A r \in DOMAIN runs :
    (runs[r].kind = "batch" /\ runs[r].parse.st # "reading"
       /\ runs[r].parse.reason # MsgReadFailed
       /\ OrcidHeaderColumns(FileTexts[runs[r].file]) # {}) =>
      /\ runs[r].parse.st = "resolved"
      /\ runs[r].parse.ids =
           SelectSeq(ColumnCells(FileTexts[runs[r].file],
                                 FirstOrcidColumn(FileTexts[runs[r].file])),
                     StatedPattern)

\* C7 amended: with an "orcid" column in the header, the identifiers
\* parseCsvFile resolves to are exactly the trimmed cells of that column made
\* of four hyphen-separated groups of four characters, all of them digits
\* but the last, which is a digit or X; in file order, duplicates kept, rows
\* too short to have the column skipped.
C7_ExtractedIds ==
  \A r \in DOMAIN runs :
    (runs[r].kind = "batch" /\ runs[r].parse.st # "reading"
       /\ runs[r].parse.reason # MsgReadFailed
       /\ OrcidHeaderColumns(FileTexts[runs[r].file]) # {}) =>
      /\ runs[r].parse.st = "resolved"
      /\ runs[r].parse.ids =
           SelectSeq(ColumnCells(FileTexts[runs[r].file],
                                 FirstOrcidColumn(FileTexts[runs[r].file])),
                     DigitPattern)
      /\ FileTexts[runs[r].file] = CsvExample => runs[r].parse.ids = <<IdA, IdB>>

\* A file with CRLF lines, a padded header, a short row, a padded cell, a
\* cell ending in a lower-case x and a repeated identifier has been read: the
\* padded and the repeated cell are the output.
C7_Witness ==
  \E r \in DOMAIN runs :
    /\ runs[r].kind = "batch"
    /\ FileTexts[runs[r].file] = CsvPadded
    /\ runs[r].parse.st = "resolved"
    /\ runs[r].parse.ids = <<IdX, IdX>>

\* The works of a collection, as <<profile, work>> positions.
WorkIds(d) == UNION {{<<p, w>> : w \in 1..Len(d[p].works)} : p \in 1..Len(d)}
WorkAt(d, pw) == d[pw[1]].works[pw[2]]

\* C8: in every state the summary is the one of the current collection: its
\* totalPublications is the sum of the profiles' work counts and its
\* totalResearchers the number of profiles; there is a summary exactly when
\* the collection is not empty.
C8_SummaryCounts ==
  /\ stats = None <=> data = <<>>
  /\ stats # None =>
       /\ stats[1].totalPublications = Cardinality(WorkIds(data))
       /\ stats[1].totalResearchers = Len(data)
       /\ stats[1].processedProfiles = data

\* A batch has returned two profiles with works, one of them with more works
\* than the other.
C8_Witness ==
  /\ Len(data) = 2
  /\ stats # None
  /\ Len(data[1].works) > Len(data[2].works)
  /\ Len(data[2].works) > 0
  /\ stats[1].totalPublications = Len(data[1].works) + Len(data[2].works)

\* C9 as stated: for the empty collection there is a summary, and its
\* avgPublications is 0.
C9_Original ==
  data = <<>> => (stats # None /\ stats[1].avgPublications = Zero)

\* C9 amended: for the empty collection the memo returns no summary at all;
\* every summary there is has a positive totalResearchers and the quotient
\* totalPublications / totalResearchers as its avgPublications.
C9_NoSummaryWhenEmpty ==
  /\ data = <<>> => stats = None
  /\ stats # None =>
       /\ stats[1].totalResearchers > 0
       /\ stats[1].avgPublications.den > 0
       /\ stats[1].avgPublications.num * stats[1].totalResearchers
            = stats[1].totalPublications * stats[1].avgPublications.den

\* A handler has emptied a collection and awaits its first result: the memo
\* has run on the empty collection.
C9_Witness ==
  /\ data = <<>>
  /\ stats = None
  /\ \E r \in DOMAIN runs : runs[r].pc = "await" /\ runs[r].results = <<>>

\* The works of the collection whose year is the number y.
WorksOfYear(d, y) == {pw \in WorkIds(d) : WorkAt(d, pw).year = Num(y)}

\* The histogram's entries are strictly ascending by year.
YearsAscending(h) == \A k \in 1..(Len(h) - 1) : h[k].year < h[k + 1].year

\* C10: publicationsByYear is strictly ascending by year, has an entry for
\* year y exactly when some work has the non-null year y, and that entry
\* counts the works whose year is y.
C10_YearHistogram ==
  stats # None =>
    /\ YearsAscending(stats[1].publicationsByYear)
    /\ \A k \in 1..Len(stats[1].publicationsByYear) :
         /\ WorksOfYear(data, stats[1].publicationsByYear[k].year) # {}
         /\ stats[1].publicationsByYear[k].count
              = Cardinality(WorksOfYear(data, stats[1].publicationsByYear[k].year))
    /\ \A pw \in WorkIds(data) :
         WorkAt(data, pw).year.k = "num" =>
           \E k \in 1..Len(stats[1].publicationsByYear) :
             stats[1].publicationsByYear[k].year = WorkAt(data, pw).year.v

\* What the histogram does satisfy: the statement above for the years other
\* than 0, the works of year 0 having no entry.
YearHistogramOfCountedYears ==
  stats # None =>
    /\ YearsAscending(stats[1].publicationsByYear)
    /\ \A k \in 1..Len(stats[1].publicationsByYear) :
         /\ stats[1].publicationsByYear[k].year # 0
         /\ stats[1].publicationsByYear[k].count > 0
         /\ stats[1].publicationsByYear[k].count
              = Cardinality(WorksOfYear(data, stats[1].publicationsByYear[k].year))
    /\ \A pw \in WorkIds(data) :
         (WorkAt(data, pw).year.k = "num" /\ WorkAt(data, pw).year.v # 0) =>
           \E k \in 1..Len(stats[1].publicationsByYear) :
             stats[1].publicationsByYear[k].year = WorkAt(data, pw).year.v

\* A profile with a work of year 0 is in the collection.
YearZeroInCollection ==
  \E pw \in WorkIds(data) : WorkAt(data, pw).year = Num(0)

\* The label a work is counted under: its type, "Other" for a falsy one.
LabelOf(work) == IF work.type \in {<<>>, NullString} THEN S_Other ELSE work.type

\* The works of the collection counted under label L.
WorksOfLabel(d, L) == {pw \in WorkIds(d) : LabelOf(WorkAt(d, pw)) = L}

\* pw is scanned before qw: profile order, then work order.
ScannedBefore(pw, qw) == pw[1] < qw[1] \/ (pw[1] = qw[1] /\ pw[2] < qw[2])

\* Label L was first seen before label M while scanning the works.
FirstSeenBefore(d, L, M) ==
  \E pw \in WorksOfLabel(d, L) : \A qw \in WorksOfLabel(d, M) : ScannedBefore(pw, qw)

CountsNonIncreasing(h) == \A k \in 1..(Len(h) - 1) : h[k].count >= h[k + 1].count

\* C11: publicationsByType is non-increasing by count, and entries of equal
\* count are in the order in which their labels were first seen while
\* scanning the works (profile order, then work order).
C11_TypeHistogramOrder ==
  stats # None =>
    /\ CountsNonIncreasing(stats[1].publicationsByType)
    /\ \A k \in 1..Len(stats[1].publicationsByType) :
         \A j \in (k + 1)..Len(stats[1].publicationsByType) :
           stats[1].publicationsByType[k].count = stats[1].publicationsByType[j].count =>
             FirstSeenBefore(data, stats[1].publicationsByType[k].type,
                                   stats[1].publicationsByType[j].type)

\* What the histogram does satisfy: it is non-increasing by count, and of two
\* entries of equal count the one first seen comes first unless the other's
\* label is a canonical array index ("7", "12"); such labels come before
\* every other label of their count, in ascending numeric order.
TypeHistogramOrderOfNames ==
  stats # None =>
    /\ CountsNonIncreasing(stats[1].publicationsByType)
    /\ \A k \in 1..Len(stats[1].publicationsByType) :
         \A j \in (k + 1)..Len(stats[1].publicationsByType) :
           LET a == stats[1].publicationsByType[k]
               b == stats[1].publicationsByType[j]
           IN a.count = b.count =>
                IF IsArrayIndex(a.type)
                THEN IsArrayIndex(b.type) =>
                       DigitsValue(a.type, 0) < DigitsValue(b.type, 0)
                ELSE ~IsArrayIndex(b.type) /\ FirstSeenBefore(data, a.type, b.type)

\* A collection whose first work has the type BOOK and whose second work has
\* the type "7", one work each.
C11_Witness ==
  /\ stats # None
  /\ Len(data) = 1
  /\ Len(data[1].works) = 2
  /\ data[1].works[1].type = S_BOOK
  /\ data[1].works[2].type = V_7

GroupsOf(call) ==
  IF call.body = None \/ call.body[1].group = None THEN <<>> ELSE call.body[1].group[1]

HasOtherEntry(h) == \E k \in 1..Len(h) : h[k].type = S_Other

RECURSIVE Numeral(_)
Numeral(str) ==
  IF str = <<>> THEN 0
  ELSE 10 * Numeral(SubSeq(str, 1, Len(str) - 1))
         + (CHOOSE d \in 0..9 : DigitChars[d + 1] = str[Len(str)])

IsNumeral(str) == str # <<>> /\ \A k \in 1..Len(str) : str[k] \in Digits

\* An optional string of the response that is absent or empty.
Missing(opt) == opt = None \/ opt[1] = <<>>

\* str with a space for every underscore.
IsSpaced(label, str) ==
  /\ Len(label) = Len(str)
  /\ \A k \in 1..Len(str) : label[k] = (IF str[k] = "_" THEN " " ELSE str[k])

\* doi is the value of the first external id of type "doi", absent if there
\* is none.
IsFirstDoi(doi, extIds) ==
  LET arr == IF extIds = None THEN <<>> ELSE extIds[1]
  IN IF \A k \in 1..Len(arr) : arr[k].type # S_doi
     THEN doi = None
     ELSE \E k \in 1..Len(arr) :
            /\ arr[k].type = S_doi
            /\ \A j \in 1..(k - 1) : arr[j].type # S_doi
            /\ doi = Some(arr[k].value)

\* The fields of a work other than its year, built from a summary.
IsRecordOf(work, summary) ==
  /\ work.title = (IF Missing(summary.title) THEN S_Untitled ELSE summary.title[1])
  /\ IF Missing(summary.type) THEN work.type = S_UNKNOWN
     ELSE IsSpaced(work.type, summary.type[1])
  /\ work.putCode = JsNumber(summary.putCode)
  /\ IsFirstDoi(work.doi, summary.extIds)

\* The year as the claim words it: an integer when the summary has a year,
\* null otherwise.
IsStatedYear(year, opt) == IF opt = None THEN year = Null ELSE year.k = "num"

\* The year as the code computes it: null when the year value is absent or
\* empty, the integer it denotes when it is a decimal numeral, and for any
\* other value what parseInt(value, 10) makes of it, which is NaN when the
\* value does not begin with a numeral.
IsParsedYear(year, opt) ==
  IF Missing(opt) THEN year = Null
  ELSE IF IsNumeral(opt[1]) THEN year = Num(Numeral(opt[1]))
  ELSE year = ParseInt(opt[1])

\* The calls that got a success response whose every group has a summary.
SuccessCalls ==
  {rc \in CallIds :
     /\ CallAt(rc).st = "fulfilled"
     /\ CallAt(rc).body # None
     /\ \A g \in 1..Len(GroupsOf(CallAt(rc))) : GroupsOf(CallAt(rc))[g] # <<>>}

\* The profile of a success call is real, with one work per group in group
\* order, each built from the first summary of its group.
IsMappedProfile(call) ==
  /\ ~call.caught
  /\ call.value[1].orcidId = call.cleanId
  /\ Len(call.value[1].works) = Len(GroupsOf(call))
  /\ \A g \in 1..Len(GroupsOf(call)) :
       /\ call.value[1].works[g].putCode.t = "number"
       /\ IsRecordOf(call.value[1].works[g], GroupsOf(call)[g][1])

TurnStarts == ~isProcessing /\ isProcessing'

\* C15: with the API key configured, the session is always one created for
\* the current summary; a change of the summary leaves the messages as they
\* are and leaves a new session, with no turn sent through it; and a turn is
\* sent through the session of the summary current at that moment.  Without
\* the key there is no session and no turn.
C15_SessionFollowsSummary ==
  /\ [](IF apiKey
        THEN /\ chatSession # None
             /\ chatSession[1].systemInstruction = SystemInstruction(stats)
        ELSE chatSession = None /\ exchanges = <<>>)
  /\ [][/\ stats' # stats =>
             /\ messages' = messages
             /\ apiKey => chatSession' = Some(NewSession(SystemInstruction(stats')))
        /\ TurnStarts =>
             /\ exchanges'[Len(exchanges')].instruction = SystemInstruction(stats)
             /\ chatSession'[1].systemInstruction = SystemInstruction(stats)
             /\ chatSession'[1].sent
                  = Append(chatSession[1].sent, exchanges'[Len(exchanges')].message)]_vars

\* A second turn is in flight, sent through the session of a collection of
\* two profiles, after a first turn sent through an earlier session: both
\* user messages are in the list, the new session has only the second.
C15_Witness ==
  /\ Len(data) = 2
  /\ Len(SelectSeq(messages, LAMBDA m : m.role = S_user)) = 2
  /\ chatSession # None
  /\ chatSession[1].sent = <<V_hi>>
  /\ \E e \in DOMAIN exchanges :
       /\ exchanges[e].pc = "streaming"
       /\ exchanges[e].instruction = SystemInstruction(stats)
       /\ exchanges[e].instruction.context # None

\* C16: after an exchange that failed, the failed response is not in the
\* list any more, the apology stands in its place, and the processing flag
\* is false again.
C16_ErrorReplacesResponse ==
  \A e \in DOMAIN exchanges :
    (exchanges[e].pc = "done" /\ exchanges[e].failed) =>
      /\ LiveExchanges(exchanges) = <<>> => ~isProcessing
      /\ \E k \in 1..Len(messages) : messages[k].text = ApologyText
      /\ exchanges[e].placeholderAt # 0 =>
           /\ messages[exchanges[e].placeholderAt].text = ApologyText
           /\ messages[exchanges[e].placeholderAt].isThinking = None

\* What a failed exchange does leave: the apology right after the messages
\* it had pushed, its placeholder still in the list with the text received
\* so far (none, and isThinking still true, when no chunk had any), and the
\* processing flag false.
ChatErrorAppended ==
  \A e \in DOMAIN exchanges :
    (exchanges[e].pc = "done" /\ exchanges[e].failed) =>
      /\ ~isProcessing
      /\ messages[Len(messages)].text = ApologyText
      /\ exchanges[e].placeholderAt # 0 =>
           /\ exchanges[e].placeholderAt = Len(messages) - 1
           /\ messages[exchanges[e].placeholderAt].text = exchanges[e].fullResponse
           /\ messages[exchanges[e].placeholderAt].isThinking
                = Some(exchanges[e].fullResponse = <<>>)

\* A stream has thrown before any chunk with text: the placeholder is still
\* in the list, empty and thinking, before the apology.
C16_Witness ==
  \E e \in DOMAIN exchanges :
    /\ exchanges[e].pc = "done"
    /\ exchanges[e].failed
    /\ exchanges[e].placeholderAt # 0
    /\ messages[exchanges[e].placeholderAt].isThinking = Some(TRUE)
    /\ messages[Len(messages)].text = ApologyText

\* C17: an analysis that has started finishes with loading false, given that
\* file reads, fetches, body reads and the fallback timer settle and the
\* handlers resume; and whenever no analysis is running and an error is
\* shown, the collection is empty.
C17_AnalysisFinishes ==
  /\ loading ~> ~loading
  /\ [](~loading /\ error # None => data = <<>>)

\* A batch has finished with the error of a file without identifiers.
C17_Witness ==
  /\ ~loading
  /\ error = Some(MsgNoIds)
  /\ data = <<>>
  /\ \E r \in DOMAIN runs : runs[r].kind = "batch" /\ runs[r].pc = "done"

\* The positions of the messages whose id is id.
PositionsOfId(id) == {k \in 1..Len(messages) : messages[k].id = id}

\* C18: at most one exchange is in flight, exactly while the processing flag
\* is set; the id of the placeholder of the exchange in flight is the id of
\* no other message; and a step changes a message of the list only if it is
\* the placeholder of the exchange in flight, which gets the text that
\* exchange has received.
C18_OneExchangeInFlight ==
  /\ [](/\ Len(LiveExchanges(exchanges)) <= 1
        /\ isProcessing <=> (Len(LiveExchanges(exchanges)) = 1)
        /\ \A e \in DOMAIN exchanges :
             exchanges[e].pc = "streaming" =>
               PositionsOfId(exchanges[e].modelMsgId) = {exchanges[e].placeholderAt})
  /\ [][/\ Len(messages') >= Len(messages)
        /\ \A k \in 1..Len(messages) :
             messages'[k] # messages[k] =>
               \E e \in DOMAIN exchanges :
                 /\ exchanges[e].pc = "streaming"
                 /\ k = exchanges[e].placeholderAt
                 /\ messages'[k].text = exchanges'[e].fullResponse
                 /\ messages'[k].id = messages[k].id]_vars

\* The second exchange has received a chunk: its placeholder has that text,
\* and the placeholder of the first exchange still has the two chunks of its
\* own.
C18_Witness ==
  \E e \in DOMAIN exchanges :
    /\ exchanges[e].pc = "streaming"
    /\ exchanges[e].fullResponse = V_o
    /\ messages[exchanges[e].placeholderAt].text = V_o
    /\ \E k \in 1..(exchanges[e].placeholderAt - 1) :
         /\ messages[k].role = S_model
         /\ messages[k].text = V_o \o V_o
====
